---- MODULE Spec2Model ----
(***************************************************************************)
(* Model of mindboggle/shapes/laplace_beltrami.py: the FEM assembly        *)
(* computeAB(points, faces) and its caller fem_laplacian(points, faces).   *)
(*                                                                         *)
(* Floating-point values are modelled as exact extended rationals          *)
(* <<n, d>>: d > 0 is the finite value n/d in lowest terms, and d = 0      *)
(* encodes the IEEE-754 non-finite values numpy produces instead of        *)
(* raising: <<1,0>> = +inf, <<-1,0>> = -inf, <<0,0>> = nan.  Rounding is   *)
(* not modelled; the coordinates are chosen so that every square root the  *)
(* code takes is exact.                                                    *)
(***************************************************************************)
EXTENDS Integers, Sequences, FiniteSets, TLC

VARIABLES points, faces, op, ab, fem

vars == <<points, faces, op, ab, fem>>

(***************************************************************************)
(* Bounds of the model.                                                    *)
(***************************************************************************)
MaxPoints == 5
MaxFaces == 2

(***************************************************************************)
(* Extended-rational arithmetic standing for numpy's float64 operations.   *)
(***************************************************************************)
Abs(n) == IF n < 0 THEN -n ELSE n

Sign(n) == IF n < 0 THEN -1 ELSE IF n = 0 THEN 0 ELSE 1

RECURSIVE GCD(_, _)
GCD(a, b) == IF b = 0 THEN a ELSE GCD(b, a % b)

NaN == <<0, 0>>

Inf(s) == <<s, 0>>

Norm(n, d) ==
    LET g == GCD(Abs(n), d) IN <<n \div g, d \div g>>

Flt(n) == <<n, 1>>

IsFinite(x) == x[2] > 0

IsNaN(x) == x = NaN

FAdd(x, y) ==
    IF IsNaN(x) \/ IsNaN(y) THEN NaN
    ELSE IF ~IsFinite(x) THEN (IF ~IsFinite(y) /\ y # x THEN NaN ELSE x)
    ELSE IF ~IsFinite(y) THEN y
    ELSE Norm(x[1] * y[2] + y[1] * x[2], x[2] * y[2])

FNeg(x) == <<-x[1], x[2]>>

FSub(x, y) == FAdd(x, FNeg(y))

FMul(x, y) ==
    IF IsNaN(x) \/ IsNaN(y) THEN NaN
    ELSE IF ~IsFinite(x) \/ ~IsFinite(y)
         THEN (IF x[1] = 0 \/ y[1] = 0 THEN NaN ELSE Inf(Sign(x[1]) * Sign(y[1])))
    ELSE Norm(x[1] * y[1], x[2] * y[2])

\* x / y for finite x and y; a zero divisor gives inf or nan, as numpy does.
FDiv(x, y) ==
    IF y[1] = 0 THEN (IF x[1] = 0 THEN NaN ELSE Inf(Sign(x[1])))
    ELSE Norm(x[1] * y[2] * Sign(y[1]), x[2] * Abs(y[1]))

\* np.sqrt on the squares the meshes of this model produce (always perfect).
Sqrt(n) == CHOOSE r \in 0..n : r * r = n

RECURSIVE FSumSeq(_)
FSumSeq(s) == IF s = <<>> THEN Flt(0) ELSE FAdd(FSumSeq(SubSeq(s, 1, Len(s) - 1)), s[Len(s)])

(***************************************************************************)
(* 3x3 matrices are triples of rows.                                       *)
(***************************************************************************)
R3 == 1..3

\* An array, held element by element (a function over 1..n as a tuple).
Arr(f) == f \o <<>>

H(n) == Norm(n, 2)

\* tB = (ones + eye) / 24
tB == Arr([r \in R3 |-> Arr([c \in R3 |-> Norm(IF r = c THEN 2 ELSE 1, 24)])])

\* tA00 with a sign slip in its first row (its rows no longer sum to zero).
tA00_SignSlip == << <<H(1), H(1), Flt(0)>>,
                    <<H(-1), H(1), Flt(0)>>,
                    <<Flt(0), Flt(0), Flt(0)>> >>

tA00 == << <<H(1), H(-1), Flt(0)>>,
           <<H(-1), H(1), Flt(0)>>,
           <<Flt(0), Flt(0), Flt(0)>> >>

tA11 == << <<H(1), Flt(0), H(-1)>>,
           <<Flt(0), Flt(0), Flt(0)>>,
           <<H(-1), Flt(0), H(1)>> >>

\* tA0110 with one entry of a mirrored pair mistyped.
tA0110_Typo == << <<Flt(1), H(-1), H(-1)>>,
                  <<H(1), Flt(0), H(1)>>,
                  <<H(-1), H(1), Flt(0)>> >>

tA0110 == << <<Flt(1), H(-1), H(-1)>>,
             <<H(-1), Flt(0), H(1)>>,
             <<H(-1), H(1), Flt(0)>> >>

(***************************************************************************)
(* numpy helpers used by computeAB.                                        *)
(***************************************************************************)
\* Python indexing of a length-n axis: -n..n-1 is accepted, negatives wrap.
InRange(i, n) == -n <= i /\ i < n

At(arr, i) == arr[(IF i < 0 THEN Len(arr) + i ELSE i) + 1]

Sub3(a, b) == <<a[1] - b[1], a[2] - b[2], a[3] - b[3]>>

\* np.sum(a * b, axis=1) for one row
Dot3(a, b) == a[1] * b[1] + a[2] * b[2] + a[3] * b[3]

\* np.cross for one row
Cross3(a, b) == <<a[2] * b[3] - a[3] * b[2],
                  a[3] * b[1] - a[1] * b[3],
                  a[1] * b[2] - a[2] * b[1]>>

\* np.array([np.tile(M, (1, 1)) for i in xrange(nfaces)])
Tile(M, nfaces) == Arr([t \in 1..nfaces |-> M])

\* np.array([np.ones((3,3))*x for x in A])
reshape_and_repeat(A) ==
    Arr([t \in 1..Len(A) |-> Arr([r \in R3 |-> Arr([c \in R3 |-> A[t]])])])

\* Elementwise operations on (nfaces, 3, 3) arrays.
Mul333(X, Y) ==
    Arr([t \in 1..Len(X) |-> Arr([r \in R3 |-> Arr([c \in R3 |->
        FMul(X[t][r][c], Y[t][r][c])])])])

Add333(X, Y) ==
    Arr([t \in 1..Len(X) |-> Arr([r \in R3 |-> Arr([c \in R3 |->
        FAdd(X[t][r][c], Y[t][r][c])])])])

Sub333(X, Y) ==
    Arr([t \in 1..Len(X) |-> Arr([r \in R3 |-> Arr([c \in R3 |->
        FSub(X[t][r][c], Y[t][r][c])])])])

\* 1.0 / X
Recip333(X) ==
    Arr([t \in 1..Len(X) |-> Arr([r \in R3 |-> Arr([c \in R3 |->
        FDiv(Flt(1), X[t][r][c])])])])

\* ndarray.flatten() of an (nfaces, 3, 3) array, row-major
Flatten(X) ==
    Arr([k \in 1..(9 * Len(X)) |->
        X[((k - 1) \div 9) + 1][(((k - 1) % 9) \div 3) + 1][((k - 1) % 3) + 1]])

\* A mean taken over the non-zero entries only.
np_mean_nonzero(v) ==
    FDiv(FSumSeq(v), Flt(Cardinality({t \in 1..Len(v) : v[t] # Flt(0)})))

\* np.mean(vol)
np_mean(v) == FDiv(FSumSeq(v), Flt(Len(v)))

\* vol = [vol_mean if x == 0 else x for x in vol]
substitute(v, vol_mean) == Arr([t \in 1..Len(v) |-> IF v[t] = Flt(0) THEN vol_mean ELSE v[t]])

SeqMax(s) == CHOOSE m \in {s[k] : k \in 1..Len(s)} : \A k \in 1..Len(s) : s[k] <= m

\* Duplicate (row, col) triplets overwrite each other: the last one stays.
RECURSIVE keep_last_duplicate(_, _, _, _, _, _)
keep_last_duplicate(data, row, col, u, v, k) ==
    IF k = 0 THEN Flt(0)
    ELSE IF row[k] = u /\ col[k] = v THEN data[k]
         ELSE keep_last_duplicate(data, row, col, u, v, k - 1)

\* Duplicate (row, col) triplets are summed when the COO triplets become CSR.
RECURSIVE sum_duplicates(_, _, _, _, _, _)
sum_duplicates(data, row, col, u, v, k) ==
    IF k = 0 THEN Flt(0)
    ELSE LET rest == sum_duplicates(data, row, col, u, v, k - 1)
         IN IF row[k] = u /\ col[k] = v THEN FAdd(rest, data[k]) ELSE rest

\* The entry at (u, v) of sparse.csr_matrix((data, (row, col)))
csr_entry(data, row, col, u, v) == sum_duplicates(data, row, col, u, v, Len(data))

\* The shape sparse.csr_matrix infers when none is given: largest index + 1
csr_shape(row, col) == <<SeqMax(row) + 1, SeqMax(col) + 1>>

\* sparse.csr_matrix((data, (row, col))): a negative index is rejected,
\* otherwise a dense view of the matrix, rows 1..shape[1] for indices 0..
csr_matrix(data, row, col) ==
    IF \E k \in 1..Len(row) : row[k] < 0 \/ col[k] < 0
    THEN [error |-> "ValueError", shape |-> <<0, 0>>, M |-> <<>>]
    ELSE LET shape == csr_shape(row, col)
         IN [error |-> "none", shape |-> shape,
             M |-> Arr([u \in 1..shape[1] |-> Arr([v \in 1..shape[2] |->
                        csr_entry(data, row, col, u - 1, v - 1)])])]

(***************************************************************************)
(* computeAB(points, faces): the locals of the call when it ends, with     *)
(* the steps it completed and the error it raised, if any.                 *)
(***************************************************************************)
NoFrame ==
    [steps |-> <<>>, error |-> "none", returned |-> FALSE, vol_raw |-> <<>>,
     vol_mean |-> NaN, vol |-> <<>>, localA |-> <<>>, localB |-> <<>>,
     I_new |-> <<>>, J_new |-> <<>>, shape |-> <<0, 0>>, A |-> <<>>, B |-> <<>>]

\* lines 176-180: the two sparse matrices, built from the same index arrays
construct_sparse(locals, A, B) ==
    IF A.error # "none"
    THEN [locals EXCEPT
             !.steps = <<"convert", "basis", "vertices", "geometry", "local", "indices">>,
             !.error = A.error]
    ELSE [locals EXCEPT
             !.steps = <<"convert", "basis", "vertices", "geometry", "local", "indices",
                         "sparse">>,
             !.returned = TRUE, !.shape = A.shape, !.A = A.M, !.B = B.M]

\* lines 170-174: J_new = I.flatten(), I_new = J.flatten(), the data flattened
flatten_and_swap(locals, I, J) ==
    construct_sparse([locals EXCEPT !.I_new = Flatten(J), !.J_new = Flatten(I)],
                     csr_matrix(Flatten(locals.localA), Flatten(J), Flatten(I)),
                     csr_matrix(Flatten(locals.localB), Flatten(J), Flatten(I)))

\* lines 164-168: J tiles each face as rows, I is its transpose
row_col_indices(fcs, locals) ==
    flatten_and_swap(locals,
        Arr([t \in 1..Len(fcs) |-> Arr([r \in R3 |-> Arr([c \in R3 |-> fcs[t][r]])])]),
        Arr([t \in 1..Len(fcs) |-> Arr([r \in R3 |-> Arr([c \in R3 |-> fcs[t][c]])])]))

\* lines 158-162: localB = vol * tB,
\* localA = (1.0/vol) * (a0*tA00 + a1*tA11 - a0110*tA0110)
local_matrices(fcs, a0, a1, a0110, vol, locals) ==
    row_col_indices(fcs,
        [locals EXCEPT
            !.localB = Mul333(vol, Tile(tB, Len(fcs))),
            !.localA = Mul333(Recip333(vol),
                              Sub333(Add333(Mul333(a0, Tile(tA00, Len(fcs))),
                                            Mul333(a1, Tile(tA11, Len(fcs)))),
                                     Mul333(a0110, Tile(tA0110, Len(fcs)))))])

\* lines 156-158: the zero entries of vol replaced by vol_mean
zero_vol(fcs, a0, a1, a0110, vol_raw, vol_mean) ==
    local_matrices(fcs, a0, a1, a0110,
        reshape_and_repeat(substitute(vol_raw, vol_mean)),
        [NoFrame EXCEPT !.vol_raw = vol_raw, !.vol_mean = vol_mean,
                        !.vol = substitute(vol_raw, vol_mean)])

\* lines 152-156: vol = |cross product|, vol_mean = np.mean(vol)
volumes(fcs, a0, a1, a0110, vol_raw) ==
    zero_vol(fcs, a0, a1, a0110, vol_raw, np_mean(vol_raw))

\* lines 140-154: a0 = |v3mv1|^2, a1 = |v2mv1|^2, a0110 = v2mv1 . v3mv1
triangle_geometry(fcs, v2mv1, v3mv1) ==
    volumes(fcs,
        reshape_and_repeat(Arr([t \in 1..Len(fcs) |-> Flt(Dot3(v3mv1[t], v3mv1[t]))])),
        reshape_and_repeat(Arr([t \in 1..Len(fcs) |-> Flt(Dot3(v2mv1[t], v2mv1[t]))])),
        reshape_and_repeat(Arr([t \in 1..Len(fcs) |-> Flt(Dot3(v2mv1[t], v3mv1[t]))])),
        Arr([t \in 1..Len(fcs) |->
                Flt(Sqrt(Dot3(Cross3(v2mv1[t], v3mv1[t]), Cross3(v2mv1[t], v3mv1[t]))))]))

\* lines 120-125: v1, v2, v3 gathered from points, and the two edge vectors
difference_vectors(fcs, v1, v2, v3) ==
    triangle_geometry(fcs,
        Arr([t \in 1..Len(fcs) |-> Sub3(v2[t], v1[t])]),
        Arr([t \in 1..Len(fcs) |-> Sub3(v3[t], v1[t])]))

computeAB(pts, fcs) ==
    \* lines 121-123: faces[:, c] on an empty faces array, points[..., :] on an
    \* empty points array, or an index outside -N..N-1 raise IndexError
    IF Len(fcs) = 0 \/ Len(pts) = 0
       \/ \E t \in 1..Len(fcs) : \E c \in R3 : ~InRange(fcs[t][c], Len(pts))
    THEN [NoFrame EXCEPT !.steps = <<"convert", "basis">>, !.error = "IndexError"]
    ELSE difference_vectors(fcs,
            Arr([t \in 1..Len(fcs) |-> At(pts, fcs[t][1])]),
            Arr([t \in 1..Len(fcs) |-> At(pts, fcs[t][2])]),
            Arr([t \in 1..Len(fcs) |-> At(pts, fcs[t][3])]))

(***************************************************************************)
(* fem_laplacian(points, faces).                                           *)
(***************************************************************************)
MinPoints == 5

NumEigenvalues == 3

\* np.array([-1, -1, -1, -1, -1])
Sentinel == <<-1, -1, -1, -1, -1>>

\* The size test with the boundary on the wrong side.
TooSmall_Inclusive(npoints) == npoints <= MinPoints

\* if npoints < 5:  # too small
TooSmall(npoints) == npoints < MinPoints

\* What scipy's eigsh(A, k=3, M=B, which="SM") can do: raise, or return k
\* eigenvalues in ascending order.  The values stand for any floats.
EigVals == {-1, 0}

SolverRaises == [raised |-> TRUE, values |-> <<>>]

EigshOutcomes ==
    {SolverRaises} \cup
    {[raised |-> FALSE, values |-> e] :
        e \in {x \in [1..NumEigenvalues -> EigVals] :
                   \A i \in 1..(NumEigenvalues - 1) : x[i] <= x[i + 1]}}

\* ARPACK needs k < n; otherwise the outcome is the solver's.
eigsh(shape, outcome) == IF NumEigenvalues >= shape[1] THEN SolverRaises ELSE outcome

NoCall == [calls |-> <<>>, returned |-> FALSE, ret |-> <<>>, error |-> "none"]

\* line 244-246: the solver raises, or its eigenvalues are returned as a list
solve(AB, eigenvalues) ==
    IF eigenvalues.raised
    THEN [frame |-> AB,
          call |-> [NoCall EXCEPT !.calls = <<"computeAB", "eigsh">>,
                                  !.error = "SolverError"]]
    ELSE [frame |-> AB,
          call |-> [NoCall EXCEPT !.calls = <<"computeAB", "eigsh">>,
                                  !.returned = TRUE, !.ret = eigenvalues.values]]

\* line 240 onwards: an error of computeAB propagates, else the solver runs
assemble_and_solve(AB, outcomes) ==
    IF ~AB.returned
    THEN {[frame |-> AB,
           call |-> [NoCall EXCEPT !.calls = <<"computeAB">>, !.error = AB.error]]}
    ELSE {solve(AB, eigsh(AB.shape, o)) : o \in outcomes}

\* The ways a call fem_laplacian(points, faces) can end, one for each thing
\* the solver can do.
fem_laplacian(pts, fcs, outcomes) ==
    IF TooSmall(Len(pts))
    THEN {[frame |-> NoFrame,
           call |-> [NoCall EXCEPT !.returned = TRUE, !.ret = Sentinel]]}
    ELSE assemble_and_solve(computeAB(pts, fcs), outcomes)

(***************************************************************************)
(* Input meshes.  Vertex i lies on a 3-wide lattice spanned by (1,0,0) and *)
(* a second edge vector, so vertices 0,1,2 are collinear and every cross   *)
(* product has an integer length.                                          *)
(***************************************************************************)
Layouts == {<<0, 1, 0>>, <<0, 3, 4>>}

Coord(w, i) == <<i % 3, (i \div 3) * w[2], (i \div 3) * w[3]>>

Meshes == {[i \in 1..n |-> Coord(w, i - 1)] : n \in 0..MaxPoints, w \in Layouts}

FacePool ==
    { <<0, 1, 3>>,     \* a proper triangle
      <<1, 4, 3>>,     \* shares the edge (1,3) with it
      <<3, 1, 0>>,     \* the first triangle with the opposite orientation
      <<0, 2, 4>>,     \* twice the area
      <<2, 5, 4>>,     \* vertex 5: the index N itself when there are 5 points
      <<0, 1, 2>>,     \* collinear: zero area, non-zero edges
      <<1, 1, 4>>,     \* repeated vertex: zero area
      <<2, 2, 2>>,     \* a single point: zero area, zero edges
      <<0, 1, -1>>,    \* negative index that wraps around
      <<0, 1, -9>>,    \* negative index below -N
      <<0, 8, 1>> }    \* index above N-1

RECURSIVE SeqsUpTo(_, _)
SeqsUpTo(S, n) ==
    IF n = 0 THEN {<<>>}
    ELSE LET shorter == SeqsUpTo(S, n - 1)
         IN shorter \cup {Append(s, x) : s \in {q \in shorter : Len(q) = n - 1}, x \in S}

FaceLists == SeqsUpTo(FacePool, MaxFaces)

Init ==
    /\ points \in Meshes
    /\ faces \in FaceLists
    /\ op = "none"
    /\ ab = NoFrame
    /\ fem = NoCall

\* A behaviour is one call on one mesh: both functions work on locals only
\* and keep nothing from one call to the next.

\* A caller runs computeAB on the mesh.
CallComputeAB ==
    /\ op = "none"
    /\ op' = "computeAB"
    /\ ab' = computeAB(points, faces)
    /\ fem' = NoCall
    /\ UNCHANGED <<points, faces>>

\* A caller runs fem_laplacian on the mesh; the solver does what it does.
CallFemLaplacian ==
    \E r \in fem_laplacian(points, faces, EigshOutcomes) :
        /\ op = "none"
        /\ op' = "fem_laplacian"
        /\ ab' = r.frame
        /\ fem' = r.call
        /\ UNCHANGED <<points, faces>>

Next == CallComputeAB \/ CallFemLaplacian

Spec == Init /\ [][Next]_vars

(***************************************************************************)
(* Vocabulary of the properties.                                           *)
(***************************************************************************)
N == Len(points)

nfaces == Len(faces)

\* The call was computeAB(points, faces) and it returned its two matrices.
Returned == op = "computeAB" /\ ab.returned

\* Some vertex index of faces lies outside 0..N-1.
IndexOutside == \E t \in 1..nfaces : \E c \in R3 : faces[t][c] < 0 \/ faces[t][c] >= N

ZeroArea(t) == ab.vol_raw[t] = Flt(0)

\* The sum of local[t][r][c] over the triangles t and local positions (r, c)
\* with faces[t][r] = u and faces[t][c] = v, taken column by column from
\* the last triangle to the first.
RECURSIVE ContribFrom(_, _, _, _)
ContribFrom(local, u, v, k) ==
    IF k > 9 * nfaces THEN Flt(0)
    ELSE IF /\ faces[nfaces - ((k - 1) \div 9)][((k - 1) % 3) + 1] = u
            /\ faces[nfaces - ((k - 1) \div 9)][(((k - 1) % 9) \div 3) + 1] = v
         THEN FAdd(local[nfaces - ((k - 1) \div 9)][((k - 1) % 3) + 1]
                        [(((k - 1) % 9) \div 3) + 1],
                   ContribFrom(local, u, v, k + 1))
         ELSE ContribFrom(local, u, v, k + 1)

ContribSum(local, u, v) == ContribFrom(local, u, v, 1)

SumAll(M) == FSumSeq([u \in 1..Len(M) |-> FSumSeq(M[u])])

Column(M, v) == [u \in 1..Len(M) |-> M[u][v]]

\* C1 (as stated): with fewer than 5 points fem_laplacian returns the
\* 5-element sentinel and calls neither computeAB nor the eigensolver; with 5
\* or more points it calls computeAB and then the solver and never returns
\* the sentinel.
C1_AsStated ==
    op = "fem_laplacian" =>
        /\ N < 5 => fem.returned /\ fem.ret = <<-1, -1, -1, -1, -1>> /\ fem.calls = <<>>
        /\ N >= 5 => /\ fem.calls = <<"computeAB", "eigsh">>
                     /\ ~(fem.returned /\ fem.ret = <<-1, -1, -1, -1, -1>>)

\* C1 (amended): with fewer than 5 points fem_laplacian returns the sentinel
\* and calls neither computeAB nor the eigensolver; with 5 or more points it
\* calls computeAB, calls the solver after it exactly when computeAB returned
\* its matrices (an error of computeAB propagates and the solver is not
\* reached), and never returns the sentinel.
C1_SentinelGuard ==
    op = "fem_laplacian" =>
        /\ N < 5 => fem.returned /\ fem.ret = <<-1, -1, -1, -1, -1>> /\ fem.calls = <<>>
        /\ N >= 5 => /\ fem.calls # <<>> /\ fem.calls[1] = "computeAB"
                     /\ IF ab.returned
                        THEN fem.calls = <<"computeAB", "eigsh">>
                        ELSE fem.calls = <<"computeAB">> /\ ~fem.returned
                                /\ fem.error = ab.error
                     /\ ~(fem.returned /\ fem.ret = <<-1, -1, -1, -1, -1>>)

\* fem_laplacian ran on exactly 5 points, assembled, solved and returned.
C1_Witness ==
    op = "fem_laplacian" /\ N = 5 /\ fem.calls = <<"computeAB", "eigsh">> /\ fem.returned

\* C2: every entry A[u,v] of the returned stiffness matrix is the sum of the
\* local entries localA[t][r][c] over all triangles t and positions (r, c)
\* with faces[t][r] = u and faces[t][c] = v, and B[u,v] likewise from localB;
\* several contributions to one entry are summed, A and B are built with
\* the same orientation, and every contribution falls inside the matrix.
C2_ScatterAdd ==
    Returned =>
        /\ \A t \in 1..nfaces : \A c \in R3 :
                faces[t][c] < ab.shape[1] /\ faces[t][c] < ab.shape[2]
        /\ \A u \in 0..(ab.shape[1] - 1) : \A v \in 0..(ab.shape[2] - 1) :
                /\ ab.A[u + 1][v + 1] = ContribSum(ab.localA, u, v)
                /\ ab.B[u + 1][v + 1] = ContribSum(ab.localB, u, v)

\* Two triangles that share an edge (u, v) were assembled, one of them with
\* a repeated vertex, and the shared entry is not zero.
C2_Witness ==
    /\ op = "computeAB" /\ ab.returned /\ nfaces >= 2
    /\ \E t1, t2 \in 1..nfaces : \E u, v \in 0..(N - 1) :
          /\ t1 # t2 /\ u # v
          /\ {u, v} \subseteq {faces[t1][c] : c \in R3}
          /\ {u, v} = {faces[t2][c] : c \in R3}
          /\ ab.A[u + 1][v + 1] # Flt(0)

\* C3: the returned A and B are symmetric, A[i,j] = A[j,i] and
\* B[i,j] = B[j,i] for all i, j, also with shared edges, repeated faces and
\* zero-area triangles: each matrix is its own transpose, entry by entry as
\* stored.
C3_Symmetric ==
    Returned =>
        \A i \in 1..ab.shape[1] : \A j \in 1..ab.shape[2] :
            ab.A[i][j] = ab.A[j][i] /\ ab.B[i][j] = ab.B[j][i]

\* A mesh with a zero-area triangle that got the substituted volume next to
\* a proper one, and a non-zero off-diagonal stiffness entry.
C3_Witness ==
    /\ op = "computeAB" /\ ab.returned
    /\ \E t \in 1..nfaces : ZeroArea(t) /\ ab.vol[t] # Flt(0)
    /\ \E i \in 1..ab.shape[1] : \E j \in 1..ab.shape[2] :
          i # j /\ ab.A[i][j] # Flt(0)

\* C4 (as stated): the entries of the returned mass matrix B add up to the
\* surface area of the mesh, the sum over the triangles of |e1 x e2| / 2.
C4_TotalMass ==
    Returned =>
        SumAll(ab.B) = FDiv(FSumSeq(ab.vol_raw), Flt(2))

\* Exactly one triangle has zero area and at least one other triangle exists.
OneZeroArea(d) ==
    /\ nfaces >= 2 /\ d \in 1..nfaces /\ ZeroArea(d)
    /\ \A t \in 1..nfaces : t # d => ~ZeroArea(t)

\* The vol_raw values of the triangles other than d.
Others(d) == SubSeq(ab.vol_raw, 1, d - 1) \o SubSeq(ab.vol_raw, d + 1, nfaces)

\* a0*tA00 + a1*tA11 - a0110*tA0110 at (r, c) for triangle t, from the
\* vertex positions.
Edge(t, c) == Sub3(At(points, faces[t][c]), At(points, faces[t][1]))

Numerator(t, r, c) ==
    FSub(FAdd(FMul(Flt(Dot3(Edge(t, 3), Edge(t, 3))), tA00[r][c]),
              FMul(Flt(Dot3(Edge(t, 2), Edge(t, 2))), tA11[r][c])),
         FMul(Flt(Dot3(Edge(t, 2), Edge(t, 3))), tA0110[r][c]))

\* The local stiffness block of triangle t is Numerator / divisor.
DividedBy(t, divisor) ==
    \A r, c \in R3 : ab.localA[t][r][c] = FMul(FDiv(Flt(1), divisor), Numerator(t, r, c))

\* C5 (as stated): with one zero-area triangle among otherwise valid ones,
\* the vol used for its local stiffness block is the mean of the vol values
\* of all the other triangles, and the vol of every other triangle is left
\* unchanged.
C5_AsStated ==
    Returned =>
        \A d \in 1..nfaces : OneZeroArea(d) =>
            /\ ab.vol[d] = np_mean(Others(d))
            /\ DividedBy(d, np_mean(Others(d)))
            /\ \A t \in 1..nfaces : t # d => ab.vol[t] = ab.vol_raw[t]

\* C5 (amended): with one zero-area triangle among otherwise valid ones, the
\* vol used for its local stiffness block is the mean of the vol values of
\* all triangles of the mesh, the zero-area one included (the sum of the
\* others' vol divided by the number of all triangles), and the vol of every
\* other triangle is left unchanged.
C5_MeanOfAll ==
    Returned =>
        \A d \in 1..nfaces : OneZeroArea(d) =>
            /\ ab.vol[d] = FDiv(FSumSeq(Others(d)), Flt(nfaces))
            /\ DividedBy(d, FDiv(FSumSeq(Others(d)), Flt(nfaces)))
            /\ \A t \in 1..nfaces : t # d =>
                    ab.vol[t] = ab.vol_raw[t] /\ DividedBy(t, ab.vol_raw[t])

\* computeAB returned for a mesh with exactly one zero-area triangle whose
\* edges are not zero, so that its stiffness block shows the divisor.
C5_Witness ==
    /\ op = "computeAB" /\ ab.returned
    /\ \E d \in 1..nfaces :
          /\ OneZeroArea(d)
          /\ \E r, c \in R3 : Numerator(d, r, c) # Flt(0)

\* C6 (as stated): with at least one face and all indices in 0..N-1, the
\* returned A and B are both exactly N x N, N the number of points, also
\* when the highest-numbered vertices are on no face.
C6_Shape ==
    (Returned /\ nfaces >= 1 /\ ~IndexOutside) =>
        /\ ab.shape = <<N, N>>
        /\ Len(ab.A) = N /\ \A u \in 1..Len(ab.A) : Len(ab.A[u]) = N
        /\ Len(ab.B) = N /\ \A u \in 1..Len(ab.B) : Len(ab.B[u]) = N

\* C8 (as stated): once the zero-volume substitution has run, on a mesh with
\* at least one face, the vol of every triangle is non-zero and every entry
\* of every local stiffness block is finite, however many triangles have
\* zero area.
C8_NonZeroVol ==
    (Returned /\ nfaces >= 1) =>
        /\ \A t \in 1..nfaces : ab.vol[t] # Flt(0)
        /\ \A t \in 1..nfaces : \A r, c \in R3 : IsFinite(ab.localA[t][r][c])

\* C9: when every vol used is non-zero after the substitution, every row of
\* the returned A sums to zero, and so does every column, whatever the
\* connectivity, shared vertices or repeated faces.
C9_RowSumsZero ==
    (Returned /\ \A t \in 1..nfaces : ab.vol[t] # Flt(0)) =>
        \A u \in 1..ab.shape[1] :
            FSumSeq(ab.A[u]) = Flt(0) /\ FSumSeq(Column(ab.A, u)) = Flt(0)

\* computeAB returned for two triangles that share a vertex, one of them of
\* zero area with the substituted vol, and A is not the zero matrix.
C9_Witness ==
    /\ op = "computeAB" /\ ab.returned /\ nfaces >= 2
    /\ \A t \in 1..nfaces : ab.vol[t] # Flt(0)
    /\ \E t \in 1..nfaces : ZeroArea(t)
    /\ \E u \in 1..ab.shape[1] : ab.A[u][u] # Flt(0)

\* C10 (as stated): when faces holds an index outside 0..N-1, computeAB ends
\* in an error, raised before any per-triangle geometry, local-block or
\* sparse-matrix construction step has run, and returns no matrices.
C10_FailFast ==
    (op = "computeAB" /\ IndexOutside) =>
        /\ ab.error # "none" /\ ~ab.returned
        /\ \A k \in 1..Len(ab.steps) :
              ab.steps[k] \notin {"geometry", "local", "indices", "sparse"}

====
